---- MODULE Spec2Model ----
(***************************************************************************)
(* Model of lorri's instrumented build orchestrator (src/builder.rs).      *)
(*                                                                         *)
(* A line of process output is a sequence of byte chunks ("tokens").  The  *)
(* chunks are chosen so that every literal piece of the four regular       *)
(* expressions of parse_evaluation_line is a whole number of chunks and    *)
(* can occur in a line only at chunk boundaries; matching chunk sequences  *)
(* is then the same as matching the bytes.                                 *)
(***************************************************************************)
EXTENDS Integers, Sequences, FiniteSets, TLC

VARIABLES
    gen,        \* classifier harness: how the input line was put together
    line,       \* classifier harness: the line handed to parse_evaluation_line
    datum,      \* classifier harness: the LogDatum returned for it
    errScript,  \* the lines the child will write to stderr
    outScript,  \* the lines the child will write to stdout
    errSent,    \* number of stderr lines the child has written
    outSent,    \* number of stdout lines the child has written
    errPipe,    \* stderr pipe buffer
    outPipe,    \* stdout pipe buffer
    child,      \* "none" | "running" | "exited"
    status,     \* the child's exit status once it exited
    errThread,  \* stderr reader thread: [st, got]
    outThread,  \* stdout reader thread: [st, got]
    pc,         \* position of instrumented_instantiation
    joined,     \* reader threads the parent has joined
    exec,       \* exec_result, build_products and results of the tuple at 295-303
    paths,      \* paths: Vec<WatchPathBuf>
    log_lines,  \* log_lines: Vec<OsString>
    result,     \* what instrumented_instantiation returned
    opts,       \* the arguments of run: [nix_file, extra]
    cmd,        \* cmd: the Command being put together, then spawned
    spawn_err,  \* the io::ErrorKind cmd.spawn() failed with, if it did
    gc_root_dir,\* the TempDir of the ephemeral GC root: "none" | "alive" | "released"
    build_call, \* the build step of run: [st, drv, root]
    run_result, \* what run returned
    err_in,     \* error harness: how the BuildError was made
    err,        \* error harness: the BuildError value
    actionable, \* error harness: what is_actionable returned for it
    shown,      \* error harness: what Display wrote for it
    dur_in,     \* duration harness: the string handed to human_friendly_duration
    dur_checks, \* duration harness: whether the build checks integer overflow
    dur_out,    \* duration harness: what human_friendly_duration returned
    calls,      \* concurrent calls: for each call, [pc, dir, pid]
    tmpdirs,    \* concurrent calls: the temporary directories on disk
    procs       \* concurrent calls: the child processes alive

vars == <<gen, line, datum, errScript, outScript, errSent, outSent, errPipe,
          outPipe, child, status, errThread, outThread, pc, joined, exec,
          paths, log_lines, result, opts, cmd, spawn_err, gc_root_dir,
          build_call, run_result, err_in, err, actionable, shown,
          dur_in, dur_checks, dur_out, calls, tmpdirs, procs>>

parseVars == <<gen, line, datum>>

procVars == <<errScript, outScript, errSent, outSent, errPipe, outPipe, child,
              status, errThread, outThread, pc, joined, exec, paths,
              log_lines, result, opts, cmd, spawn_err, gc_root_dir,
              build_call, run_result>>

\* what the child and the reader threads never touch
callVars == <<opts, cmd, spawn_err, gc_root_dir, build_call, run_result>>

errVars == <<err_in, err, actionable, shown>>

durVars == <<dur_in, dur_checks, dur_out>>

callsVars == <<calls, tmpdirs, procs>>

----------------------------------------------------------------------------
(* Bounds *)

MaxPathLen == 3     \* chunks in a generated source or destination path
MaxTextLen == 3     \* chunks in a free-form line
MaxErrLines == 2    \* lines the child writes to stderr
MaxOutLines == 2    \* lines the child writes to stdout
PipeCap == 1        \* lines an OS pipe buffer holds before a write blocks

BoundedSeq(S, n) == UNION {[1..k -> S] : k \in 0..n}

----------------------------------------------------------------------------
(* Byte chunks *)

EV  == "evaluating file "
CP  == "copied source "
RD  == "trace: lorri read: "
RDD == "trace: lorri readdir: "
Q   == "'"
AR  == " -> "
BAD == "\\xFF"      \* a byte that is not valid UTF-8

\* chunks a path inside a diagnostic line is made of
PathChunks == {"a", Q, AR, BAD}

\* chunks of a free-form line
TextChunks == {EV, CP, RD, RDD, Q, AR, "a", BAD}

\* OsStr::to_str: Some exactly when the bytes are valid UTF-8
to_str_is_some(l) == \A i \in 1..Len(l) : l[i] # BAD

\* String::from_utf8_lossy: every invalid byte becomes U+FFFD
from_utf8_lossy(l) == [i \in 1..Len(l) |-> IF l[i] = BAD THEN "U+FFFD" ELSE l[i]]

----------------------------------------------------------------------------
(* The four regular expressions, builder.rs 435-451 *)

\* a regex of the shape ^<prefix>'(?P<source>.*)'$ : match and capture
QuotedMatch(prefix, l) ==
    /\ Len(l) >= 3
    /\ l[1] = prefix
    /\ l[2] = Q
    /\ l[Len(l)] = Q

QuotedSource(l) == SubSeq(l, 3, Len(l) - 1)

\* ^evaluating file '(?P<source>.*)'$
EVAL_FILE(l) == QuotedMatch(EV, l)

\* (mutant) the pattern stops before the colon:  ^trace: lorri read.*'(.*)'$
LORRI_READ_loose(l) == QuotedMatch(RD, l) \/ QuotedMatch(RDD, l)

\* ^trace: lorri read: '(?P<source>.*)'$
LORRI_READ(l) == QuotedMatch(RD, l)

\* ^trace: lorri readdir: '(?P<source>.*)'$
LORRI_READDIR(l) == QuotedMatch(RDD, l)

\* positions k at which the separator ' -> ' starts, leaving room for the
\* prefix before it and for the closing quote after it
SepPositions(l) ==
    {k \in 3..(Len(l) - 3) : l[k] = Q /\ l[k + 1] = AR /\ l[k + 2] = Q}

\* ^copied source '(?P<source>.*)' -> '(?:.*)'$
COPIED_SOURCE(l) == QuotedMatch(CP, l) /\ SepPositions(l) # {}

\* (mutant) a lazy first .* : it stops at the first separator
CopiedSourceCapture_lazy(l) ==
    LET k == CHOOSE k \in SepPositions(l) : \A j \in SepPositions(l) : k <= j
    IN  SubSeq(l, 3, k - 1)

\* the first .* is greedy: it runs up to the last separator
CopiedSourceCapture(l) ==
    LET k == CHOOSE k \in SepPositions(l) : \A j \in SepPositions(l) : j <= k
    IN  SubSeq(l, 3, k - 1)

----------------------------------------------------------------------------
(* LogDatum, builder.rs 410-425 *)

LogDatum(tag, val) == [tag |-> tag, val |-> val]

PathTags == {"NixSourceFile", "CopiedSource", "ReadRecursively", "ReadDir"}

\* (mutant) the line is decoded lossily before it is matched
parse_evaluation_line_lossy(l) ==
    LET t == from_utf8_lossy(l)
    IN  IF EVAL_FILE(t) THEN LogDatum("NixSourceFile", QuotedSource(t))
        ELSE IF COPIED_SOURCE(t) THEN LogDatum("CopiedSource", CopiedSourceCapture(t))
        ELSE IF LORRI_READ(t) THEN LogDatum("ReadRecursively", QuotedSource(t))
        ELSE LogDatum("Text", t)

\* builder.rs 429-475
parse_evaluation_line(l) ==
    IF ~to_str_is_some(l) THEN LogDatum("NonUtf", l)
    ELSE IF EVAL_FILE(l) THEN LogDatum("NixSourceFile", QuotedSource(l))
    ELSE IF COPIED_SOURCE(l) THEN LogDatum("CopiedSource", CopiedSourceCapture(l))
    ELSE IF LORRI_READ(l) THEN LogDatum("ReadRecursively", QuotedSource(l))
    ELSE IF LORRI_READ(l) THEN LogDatum("ReadDir", QuotedSource(l))
    ELSE LogDatum("Text", l)

----------------------------------------------------------------------------
(* Classifier harness: one input line, classified once *)

EvalLine(p)      == <<EV, Q>> \o p \o <<Q>>
CopiedLine(s, d) == <<CP, Q>> \o s \o <<Q, AR, Q>> \o d \o <<Q>>
ReadLine(p)      == <<RD, Q>> \o p \o <<Q>>
ReadDirLine(p)   == <<RDD, Q>> \o p \o <<Q>>

GenPaths == BoundedSeq(PathChunks, MaxPathLen)

Gens ==
    [shape : {"eval", "read", "readdir"}, src : GenPaths, dest : {<<>>}]
    \cup [shape : {"copied"}, src : GenPaths, dest : GenPaths]
    \cup [shape : {"raw"}, src : BoundedSeq(TextChunks, MaxTextLen), dest : {<<>>}]

GenLine(g) ==
    CASE g.shape = "eval"    -> EvalLine(g.src)
      [] g.shape = "copied"  -> CopiedLine(g.src, g.dest)
      [] g.shape = "read"    -> ReadLine(g.src)
      [] g.shape = "readdir" -> ReadDirLine(g.src)
      [] OTHER               -> g.src

NoDatum == LogDatum("none", <<>>)

InitParseVars ==
    /\ gen \in Gens
    /\ line = GenLine(gen)
    /\ datum = NoDatum

\* the stderr reader's map step, builder.rs 285, on one line
ParseLine ==
    /\ datum = NoDatum
    /\ datum' = parse_evaluation_line(line)
    /\ UNCHANGED <<gen, line>>
    /\ UNCHANGED procVars
    /\ UNCHANGED errVars
    /\ UNCHANGED durVars
    /\ UNCHANGED callsVars

----------------------------------------------------------------------------
(* The child process and what it writes *)

\* the filesystem the orchestrator runs on: "d" is a directory, "a" a file
DirsOnDisk == {<<"d">>}

\* Path::is_dir (a trailing separator names the same directory)
is_dir(p) ==
    \/ p \in DirsOnDisk
    \/ Len(p) >= 2 /\ p[Len(p)] = "/" /\ SubSeq(p, 1, Len(p) - 1) \in DirsOnDisk

\* PathBuf::push of a relative component: a separator is added unless the
\* path is empty or already ends with one
push(p, c) ==
    IF p = <<>> \/ p[Len(p)] = "/" THEN p \o <<c>> ELSE p \o <<"/", c>>

StderrLines ==
    { EvalLine(<<"d">>), EvalLine(<<"a">>), CopiedLine(<<"a">>, <<"s">>),
      ReadLine(<<"a">>), ReadDirLine(<<"d">>), <<"a">>, <<BAD>> }

StdoutLines == { <<"drv1">>, <<"drv2">> }

\* std::process::ExitStatus
Exited(c) == [signal |-> FALSE, code |-> c]
Signaled  == [signal |-> TRUE, code |-> 0]
Statuses  == {Exited(0), Exited(1), Signaled}
NoStatus  == [signal |-> FALSE, code |-> 0 - 1]

\* ExitStatus::success
success(st) == ~st.signal /\ st.code = 0

\* ExitStatus::code: Option<i32>, as a set with at most one element
code(st) == IF st.signal THEN {} ELSE {st.code}

Thread(st, got) == [st |-> st, got |-> got]

NoResult == [kind |-> "none"]

\* std::process::Command: the program, its arguments (each an OsString,
\* a sequence of chunks), and what its three standard streams are set to
Command_new(program) ==
    [program |-> program, args |-> <<>>,
     stdin |-> "inherit", stdout |-> "inherit", stderr |-> "inherit"]

\* Command::args
Command_args(c, more) == [c EXCEPT !.args = @ \o more]

\* no Command has been made yet
NoCommand == Command_new("")

\* OsStr::new of a literal
OsStr_new(s) == <<s>>

\* the Debug rendering of a Command: the program and the arguments in order
fmt_debug(c) == <<OsStr_new(c.program)>> \o c.args

\* extra_nix_options.to_nix_arglist(): the options a caller may pass are
\* given as the arguments they stand for
MaxExtra == 2
ExtraArgs == { OsStr_new("--show-trace"), OsStr_new("--option"),
               OsStr_new("-vv"), OsStr_new("--") }
NixFiles == { <<"/", "shell.nix">>, <<"/", "d", "/", "default.nix">> }

RunArgs == [nix_file : NixFiles, extra : BoundedSeq(ExtraArgs, MaxExtra)]

DefaultOpts == [nix_file |-> <<"/", "shell.nix">>, extra |-> <<>>]

\* crate::RUN_TIME_CLOSURE
RUN_TIME_CLOSURE == <<"runtime-closure.nix">>

\* the path cas.file_from_string gives the instrumentation script
logged_evaluation_nix == <<"/", "cas", "/", "logged-evaluation.nix">>

\* the path of the directory tempfile::TempDir::new() makes
TempDirPath == <<"/", "tmp", "/", "lorri">>

\* the build step has not been called
NoBuild == [st |-> "none", drv |-> <<>>, out |-> NoResult]

\* the state at the call of run with the arguments o, for a child that
\* is going to write the lines es to stderr and os to stdout
ProcVarsOf(es, os, o) ==
    /\ opts = o
    /\ cmd = NoCommand
    /\ spawn_err = "none"
    /\ gc_root_dir = "none"
    /\ build_call = NoBuild
    /\ run_result = NoResult
    /\ errScript = es
    /\ outScript = os
    /\ errSent = 0
    /\ outSent = 0
    /\ errPipe = <<>>
    /\ outPipe = <<>>
    /\ child = "none"
    /\ status = NoStatus
    /\ errThread = Thread("none", <<>>)
    /\ outThread = Thread("none", <<>>)
    /\ pc = "start"
    /\ joined = {}
    /\ exec = [exec_result |-> NoStatus, build_products |-> <<>>, results |-> <<>>]
    /\ paths = <<>>
    /\ log_lines = <<>>
    /\ result = NoResult

ProcVarsAt(es, os) == ProcVarsOf(es, os, DefaultOpts)

InitProcVars ==
    \E es \in BoundedSeq(StderrLines, MaxErrLines),
       os \in BoundedSeq(StdoutLines, MaxOutLines) : ProcVarsAt(es, os)

\* the state in which no call runs beside another
IdleCallsVars ==
    /\ calls = <<>>
    /\ tmpdirs = {}
    /\ procs = {}

\* the state in which the duration harness rests
IdleDurVars ==
    /\ dur_in = <<>>
    /\ dur_checks = FALSE
    /\ dur_out = NoResult

\* the state in which the error harness rests
IdleErrVars ==
    /\ err_in = [how |-> "none"]
    /\ err = NoResult
    /\ actionable = {}
    /\ shown = <<>>

\* the state in which the classifier harness rests while the orchestrator runs
IdleParseVars ==
    /\ gen = [shape |-> "raw", src |-> <<>>, dest |-> <<>>]
    /\ line = <<>>
    /\ datum = NoDatum

\* the state in which the orchestrator rests while the classifier is exercised
IdleProcVars == ProcVarsAt(<<>>, <<>>)

----------------------------------------------------------------------------
(* Error values, builder.rs 114-163 *)

\* the kinds of std::io::Error met here
IoErrors == {"NotFound", "PermissionDenied", "Other"}

\* BuildError::io: the message is the Debug rendering of the error
BuildError_io(e) == [kind |-> "Io", msg |-> e]

\* BuildError::spawn: the command line and the error's message
BuildError_spawn(c, e) == [kind |-> "Spawn", cmd |-> fmt_debug(c), msg |-> e]

\* BuildError::exit: the assertion aborts on a successful status
BuildError_exit(c, st, logs) ==
    IF success(st)
    THEN [kind |-> "Panic", why |-> "assert"]
    ELSE [kind |-> "Exit", cmd |-> fmt_debug(c), status |-> code(st),
          logs |-> logs]

\* BuildError::output
BuildError_output(msg) == [kind |-> "Output", msg |-> msg]

----------------------------------------------------------------------------
(* The child: writes its lines to the two pipes in any interleaving, blocks *)
(* on a full pipe, then exits                                               *)

\* the read end of a pipe is open while its reader thread owns it
ReadEndOpen(th) == th.st \in {"none", "running"}

ChildWriteStderr ==
    /\ child = "running"
    /\ errSent < Len(errScript)
    /\ ReadEndOpen(errThread)
    /\ Len(errPipe) < PipeCap
    /\ errPipe' = Append(errPipe, errScript[errSent + 1])
    /\ errSent' = errSent + 1
    /\ UNCHANGED <<errScript, outScript, outSent, outPipe, child, status,
                   errThread, outThread, pc, joined, exec, paths, log_lines,
                   result>>
    /\ UNCHANGED parseVars
    /\ UNCHANGED callsVars
    /\ UNCHANGED durVars
    /\ UNCHANGED errVars
    /\ UNCHANGED callVars

ChildWriteStdout ==
    /\ child = "running"
    /\ outSent < Len(outScript)
    /\ ReadEndOpen(outThread)
    /\ Len(outPipe) < PipeCap
    /\ outPipe' = Append(outPipe, outScript[outSent + 1])
    /\ outSent' = outSent + 1
    /\ UNCHANGED <<errScript, outScript, errSent, errPipe, child, status,
                   errThread, outThread, pc, joined, exec, paths, log_lines,
                   result>>
    /\ UNCHANGED parseVars
    /\ UNCHANGED callsVars
    /\ UNCHANGED durVars
    /\ UNCHANGED errVars
    /\ UNCHANGED callVars

\* a write to a pipe whose read end is closed: SIGPIPE ends the child
ChildBrokenPipe ==
    /\ child = "running"
    /\ \/ errSent < Len(errScript) /\ ~ReadEndOpen(errThread)
       \/ outSent < Len(outScript) /\ ~ReadEndOpen(outThread)
    /\ child' = "exited"
    /\ status' = Signaled
    /\ UNCHANGED <<errScript, outScript, errSent, outSent, errPipe, outPipe,
                   errThread, outThread, pc, joined, exec, paths, log_lines,
                   result>>
    /\ UNCHANGED parseVars
    /\ UNCHANGED callsVars
    /\ UNCHANGED durVars
    /\ UNCHANGED errVars
    /\ UNCHANGED callVars

\* the child has written everything and exits with any status
ChildExit ==
    /\ child = "running"
    /\ errSent = Len(errScript)
    /\ outSent = Len(outScript)
    /\ child' = "exited"
    /\ status' \in Statuses
    /\ UNCHANGED <<errScript, outScript, errSent, outSent, errPipe, outPipe,
                   errThread, outThread, pc, joined, exec, paths, log_lines,
                   result>>
    /\ UNCHANGED parseVars
    /\ UNCHANGED callsVars
    /\ UNCHANGED durVars
    /\ UNCHANGED errVars
    /\ UNCHANGED callVars

----------------------------------------------------------------------------
(* The two reader threads, builder.rs 283-293 *)

\* the stderr thread runs from its thread::spawn on, builder.rs 283
StderrThreadRuns == errThread.st = "running"

\* (mutant) stdout is drained only once wait has returned
StdoutThreadRuns_after_wait == outThread.st = "running" /\ pc # "wait"

\* the stdout thread runs from its thread::spawn on, builder.rs 289
StdoutThreadRuns == outThread.st = "running"

\* one line read from stderr and classified, or the read fails and the
\* collect ends with the error
StderrRead ==
    /\ StderrThreadRuns
    /\ errPipe # <<>>
    /\ \/ /\ errThread' = Thread("running",
                     Append(errThread.got, parse_evaluation_line(Head(errPipe))))
          /\ errPipe' = Tail(errPipe)
       \/ /\ errThread' = Thread("err", <<>>)
          /\ errPipe' = <<>>
    /\ UNCHANGED <<errScript, outScript, errSent, outSent, outPipe, child,
                   status, outThread, pc, joined, exec, paths, log_lines,
                   result>>
    /\ UNCHANGED parseVars
    /\ UNCHANGED callsVars
    /\ UNCHANGED durVars
    /\ UNCHANGED errVars
    /\ UNCHANGED callVars

\* (mutant) the stderr reader stops as soon as it finds the pipe empty
StderrEof_on_empty_pipe ==
    /\ StderrThreadRuns
    /\ errPipe = <<>>
    /\ errThread' = Thread("ok", errThread.got)
    /\ UNCHANGED <<errScript, outScript, errSent, outSent, errPipe, outPipe,
                   child, status, outThread, pc, joined, exec, paths,
                   log_lines, result>>
    /\ UNCHANGED parseVars
    /\ UNCHANGED callsVars
    /\ UNCHANGED durVars
    /\ UNCHANGED errVars
    /\ UNCHANGED callVars

\* end of file on stderr: the write end is closed and the buffer is empty
StderrEof ==
    /\ StderrThreadRuns
    /\ errPipe = <<>>
    /\ child = "exited"
    /\ errThread' = Thread("ok", errThread.got)
    /\ UNCHANGED <<errScript, outScript, errSent, outSent, errPipe, outPipe,
                   child, status, outThread, pc, joined, exec, paths,
                   log_lines, result>>
    /\ UNCHANGED parseVars
    /\ UNCHANGED callsVars
    /\ UNCHANGED durVars
    /\ UNCHANGED errVars
    /\ UNCHANGED callVars

\* DrvFile::from(PathBuf::from(os_string)), builder.rs 291
DrvFile(l) == l

StdoutRead ==
    /\ StdoutThreadRuns
    /\ outPipe # <<>>
    /\ \/ /\ outThread' = Thread("running",
                     Append(outThread.got, DrvFile(Head(outPipe))))
          /\ outPipe' = Tail(outPipe)
       \/ /\ outThread' = Thread("err", <<>>)
          /\ outPipe' = <<>>
    /\ UNCHANGED <<errScript, outScript, errSent, outSent, errPipe, child,
                   status, errThread, pc, joined, exec, paths, log_lines,
                   result>>
    /\ UNCHANGED parseVars
    /\ UNCHANGED callsVars
    /\ UNCHANGED durVars
    /\ UNCHANGED errVars
    /\ UNCHANGED callVars

StdoutEof ==
    /\ StdoutThreadRuns
    /\ outPipe = <<>>
    /\ child = "exited"
    /\ outThread' = Thread("ok", outThread.got)
    /\ UNCHANGED <<errScript, outScript, errSent, outSent, errPipe, outPipe,
                   child, status, errThread, pc, joined, exec, paths,
                   log_lines, result>>
    /\ UNCHANGED parseVars
    /\ UNCHANGED callsVars
    /\ UNCHANGED durVars
    /\ UNCHANGED errVars
    /\ UNCHANGED callVars

----------------------------------------------------------------------------
(* instrumented_instantiation, builder.rs 217-358 *)

WatchPathBuf(tag, p) == [tag |-> tag, path |-> p]

\* (mutant) a source file that is a directory is watched as it is
FoldOne_no_default_nix(acc, d) ==
    IF d.tag \in {"CopiedSource", "ReadRecursively"}
    THEN [acc EXCEPT !.paths = Append(@, WatchPathBuf("Recursive", d.val))]
    ELSE IF d.tag \in {"ReadDir", "NixSourceFile"}
    THEN [acc EXCEPT !.paths = Append(@, WatchPathBuf("Normal", d.val))]
    ELSE [acc EXCEPT !.log_lines = Append(@, d.val)]

\* (mutant) only decoded text reaches the log; undecodable lines are lost
FoldOne_drop_non_utf(acc, d) ==
    IF d.tag \in {"CopiedSource", "ReadRecursively"}
    THEN [acc EXCEPT !.paths = Append(@, WatchPathBuf("Recursive", d.val))]
    ELSE IF d.tag = "ReadDir"
    THEN [acc EXCEPT !.paths = Append(@, WatchPathBuf("Normal", d.val))]
    ELSE IF d.tag = "NixSourceFile"
    THEN [acc EXCEPT !.paths = Append(@, WatchPathBuf("Normal",
            IF is_dir(d.val) THEN push(d.val, "default.nix") ELSE d.val))]
    ELSE IF d.tag = "Text"
    THEN [acc EXCEPT !.log_lines = Append(@, d.val)]
    ELSE acc

\* (mutant) a Text line is also watched, as the path it spells
FoldOne_text_watched(acc, d) ==
    CASE d.tag \in {"CopiedSource", "ReadRecursively"} ->
            [acc EXCEPT !.paths = Append(@, WatchPathBuf("Recursive", d.val))]
      [] d.tag = "ReadDir" ->
            [acc EXCEPT !.paths = Append(@, WatchPathBuf("Normal", d.val))]
      [] d.tag = "NixSourceFile" ->
            [acc EXCEPT !.paths = Append(@, WatchPathBuf("Normal",
                IF is_dir(d.val) THEN push(d.val, "default.nix") ELSE d.val))]
      [] d.tag = "Text" ->
            [acc EXCEPT !.paths = Append(@, WatchPathBuf("Normal", d.val)),
                        !.log_lines = Append(@, d.val)]
      [] OTHER ->
            [acc EXCEPT !.log_lines = Append(@, d.val)]

\* (mutant) a path already in the watch list is not added again
FoldOne_dedup(acc, d) ==
    LET w == WatchPathBuf(IF d.tag \in {"CopiedSource", "ReadRecursively"}
                          THEN "Recursive" ELSE "Normal",
                          IF d.tag = "NixSourceFile" /\ is_dir(d.val)
                          THEN push(d.val, "default.nix") ELSE d.val)
    IN  IF d.tag \in PathTags
        THEN IF \E i \in 1..Len(acc.paths) : acc.paths[i] = w
             THEN acc
             ELSE [acc EXCEPT !.paths = Append(@, w)]
        ELSE [acc EXCEPT !.log_lines = Append(@, d.val)]

\* one turn of the loop at builder.rs 311-336, on the accumulator
\* acc = [paths, log_lines]
FoldOne(acc, d) ==
    CASE d.tag \in {"CopiedSource", "ReadRecursively"} ->
            [acc EXCEPT !.paths = Append(@, WatchPathBuf("Recursive", d.val))]
      [] d.tag = "ReadDir" ->
            [acc EXCEPT !.paths = Append(@, WatchPathBuf("Normal", d.val))]
      [] d.tag = "NixSourceFile" ->
            [acc EXCEPT !.paths = Append(@, WatchPathBuf("Normal",
                IF is_dir(d.val) THEN push(d.val, "default.nix") ELSE d.val))]
      [] OTHER ->
            [acc EXCEPT !.log_lines = Append(@, d.val)]

RECURSIVE FoldFrom(_, _)
FoldFrom(acc, ds) ==
    IF ds = <<>> THEN acc ELSE FoldFrom(FoldOne(acc, Head(ds)), Tail(ds))

\* the whole loop, builder.rs 309-336
FoldResults(ds) == FoldFrom([paths |-> <<>>, log_lines |-> <<>>], ds)

\* (mutant) the test of the exit status is inverted
Conclusion_inverted(st, products, ps, logs) ==
    IF success(st) THEN BuildError_exit(cmd, st, logs)
    ELSE IF Len(products) = 1
         THEN [kind |-> "Ok", referenced_paths |-> ps, path |-> products[1]]
         ELSE [kind |-> "Panic", why |-> "products"]

\* (mutant) the last artifact is taken whenever there is one
Conclusion_last_product(st, products, ps, logs) ==
    IF ~success(st) THEN BuildError_exit(cmd, st, logs)
    ELSE IF Len(products) >= 1
         THEN [kind |-> "Ok", referenced_paths |-> ps,
               path |-> products[Len(products)]]
         ELSE [kind |-> "Panic", why |-> "products"]

\* (mutant) the artifacts are counted before the exit status is looked at
Conclusion_count_first(st, products, ps, logs) ==
    IF Len(products) # 1 THEN [kind |-> "Panic", why |-> "products"]
    ELSE IF ~success(st) THEN BuildError_exit(cmd, st, logs)
    ELSE [kind |-> "Ok", referenced_paths |-> ps, path |-> products[1]]

\* (mutant) a log line that is not UTF-8 aborts the call
Conclusion_decode_logs(st, products, ps, logs) ==
    IF \E i \in 1..Len(logs) : ~to_str_is_some(logs[i])
    THEN [kind |-> "Panic", why |-> "decode"]
    ELSE IF ~success(st) THEN BuildError_exit(cmd, st, logs)
    ELSE IF Len(products) = 1
         THEN [kind |-> "Ok", referenced_paths |-> ps, path |-> products[1]]
         ELSE [kind |-> "Panic", why |-> "products"]

\* builder.rs 338-357: the exit status first, then the number of artifacts
Conclusion(st, products, ps, logs) ==
    IF ~success(st) THEN BuildError_exit(cmd, st, logs)
    ELSE IF Len(products) = 1
         THEN [kind |-> "Ok", referenced_paths |-> ps, path |-> products[1]]
         ELSE [kind |-> "Panic", why |-> "products"]

\* (mutant) the extra options are added after the source file
InstantiateCommand_extra_last(o, tmp, script) ==
    LET c0 == Command_new("nix-instantiate")
        c1 == Command_args(c0, <<OsStr_new("-vv")>>)
        c3 == Command_args(c1, <<OsStr_new("--add-root"), push(tmp, "result"),
                                 OsStr_new("--indirect"), OsStr_new("--argstr"),
                                 OsStr_new("runTimeClosure"), RUN_TIME_CLOSURE,
                                 OsStr_new("--argstr")>>)
        c4 == Command_args(c3, <<OsStr_new("src"), o.nix_file>>)
        c2 == Command_args(c4, o.extra)
        c5 == Command_args(c2, <<OsStr_new("--"), script>>)
    IN  [c5 EXCEPT !.stdin = "null", !.stdout = "piped", !.stderr = "piped"]

\* builder.rs 238-265: the arguments in the order they are added, and the
\* three standard streams
InstantiateCommand(o, tmp, script) ==
    LET c0 == Command_new("nix-instantiate")
        c1 == Command_args(c0, <<OsStr_new("-vv")>>)
        c2 == Command_args(c1, o.extra)
        c3 == Command_args(c2, <<OsStr_new("--add-root"), push(tmp, "result"),
                                 OsStr_new("--indirect"), OsStr_new("--argstr"),
                                 OsStr_new("runTimeClosure"), RUN_TIME_CLOSURE,
                                 OsStr_new("--argstr")>>)
        c4 == Command_args(c3, <<OsStr_new("src"), o.nix_file>>)
        c5 == Command_args(c4, <<OsStr_new("--"), script>>)
    IN  [c5 EXCEPT !.stdin = "null", !.stdout = "piped", !.stderr = "piped"]

\* (mutant) the temporary directory is kept on every way out
RootAfterReturn_leaked(root, r) == root

\* (mutant) the temporary directory is dropped on every way out
RootAfterReturn_dropped(root, r) ==
    IF root = "none" THEN "none" ELSE "released"

\* what becomes of the temporary directory when instrumented_instantiation
\* returns r: it is moved into the value returned at builder.rs 351-357,
\* and dropped, which removes it, on every other way out
RootAfterReturn(root, r) ==
    IF root = "none" THEN "none"
    ELSE IF r.kind = "Ok" THEN "alive"
    ELSE "released"

\* builder.rs 231-265: the script is staged, the temporary directory is
\* made, the command is put together
Prepare ==
    /\ pc = "start"
    /\ \/ /\ cmd' = Command_new("nix-instantiate")
          /\ result' = BuildError_io("Other")
          /\ pc' = "done"
          /\ UNCHANGED gc_root_dir
       \/ /\ cmd' = Command_new("nix-instantiate")
          /\ result' = BuildError_io("PermissionDenied")
          /\ pc' = "done"
          /\ UNCHANGED gc_root_dir
       \/ /\ cmd' = InstantiateCommand(opts, TempDirPath, logged_evaluation_nix)
          /\ gc_root_dir' = "alive"
          /\ pc' = "spawn"
          /\ UNCHANGED result
    /\ UNCHANGED <<errScript, outScript, errSent, outSent, errPipe, outPipe,
                   child, status, errThread, outThread, joined, exec, paths,
                   log_lines>>
    /\ UNCHANGED <<opts, spawn_err, build_call, run_result>>
    /\ UNCHANGED parseVars
    /\ UNCHANGED callsVars
    /\ UNCHANGED durVars
    /\ UNCHANGED errVars

\* (mutant) every failure to spawn is reported as Spawn
spawn_map_err_always_spawn(c, e) == BuildError_spawn(c, e)

\* the closure of map_err, builder.rs 269-272
spawn_map_err(c, e) ==
    IF e = "NotFound" THEN BuildError_spawn(c, e) ELSE BuildError_io(e)

\* cmd.spawn(), builder.rs 269-272, and the two thread::spawn, 283-293
Spawn ==
    /\ pc = "spawn"
    /\ \/ /\ child' = "running"
          /\ errThread' = Thread("running", <<>>)
          /\ outThread' = Thread("running", <<>>)
          /\ pc' = "wait"
          /\ UNCHANGED result
          /\ UNCHANGED spawn_err
       \/ /\ \E e \in IoErrors :
                /\ spawn_err' = e
                /\ result' = spawn_map_err(cmd, e)
          /\ pc' = "done"
          /\ UNCHANGED <<child, errThread, outThread>>
    /\ UNCHANGED <<errScript, outScript, errSent, outSent, errPipe, outPipe,
                   status, joined, exec, paths, log_lines>>
    /\ UNCHANGED parseVars
    /\ UNCHANGED callsVars
    /\ UNCHANGED durVars
    /\ UNCHANGED errVars
    /\ gc_root_dir' = IF pc' = "done" THEN RootAfterReturn(gc_root_dir, result')
                                      ELSE gc_root_dir
    /\ UNCHANGED <<opts, cmd, build_call, run_result>>

\* child.wait()?, builder.rs 296
Wait ==
    /\ pc = "wait"
    /\ child = "exited"
    /\ \/ /\ exec' = [exec EXCEPT !.exec_result = status]
          /\ pc' = "join_stdout"
          /\ UNCHANGED result
       \/ /\ result' = BuildError_io("Other")
          /\ pc' = "done"
          /\ UNCHANGED exec
    /\ UNCHANGED <<errScript, outScript, errSent, outSent, errPipe, outPipe,
                   child, status, errThread, outThread, joined, paths,
                   log_lines>>
    /\ UNCHANGED parseVars
    /\ UNCHANGED callsVars
    /\ UNCHANGED durVars
    /\ UNCHANGED errVars
    /\ UNCHANGED spawn_err
    /\ gc_root_dir' = IF pc' = "done" THEN RootAfterReturn(gc_root_dir, result')
                                      ELSE gc_root_dir
    /\ UNCHANGED <<opts, cmd, build_call, run_result>>

\* build_products.join().expect(..)?, builder.rs 297-299
JoinStdout ==
    /\ pc = "join_stdout"
    /\ outThread.st \in {"ok", "err"}
    /\ joined' = joined \cup {"stdout"}
    /\ IF outThread.st = "ok"
       THEN /\ exec' = [exec EXCEPT !.build_products = outThread.got]
            /\ pc' = "join_stderr"
            /\ UNCHANGED result
       ELSE /\ result' = BuildError_io("Other")
            /\ pc' = "done"
            /\ UNCHANGED exec
    /\ UNCHANGED <<errScript, outScript, errSent, outSent, errPipe, outPipe,
                   child, status, errThread, outThread, paths, log_lines>>
    /\ UNCHANGED parseVars
    /\ UNCHANGED callsVars
    /\ UNCHANGED durVars
    /\ UNCHANGED errVars
    /\ UNCHANGED spawn_err
    /\ gc_root_dir' = IF pc' = "done" THEN RootAfterReturn(gc_root_dir, result')
                                      ELSE gc_root_dir
    /\ UNCHANGED <<opts, cmd, build_call, run_result>>

\* (mutant) a read error of the stderr reader is dropped: the lines it had
\* read are used
JoinStderr_error_dropped ==
    /\ pc = "join_stderr"
    /\ errThread.st \in {"ok", "err"}
    /\ joined' = joined \cup {"stderr"}
    /\ exec' = [exec EXCEPT !.results = errThread.got]
    /\ pc' = "fold"
    /\ UNCHANGED <<errScript, outScript, errSent, outSent, errPipe, outPipe,
                   child, status, errThread, outThread, paths, log_lines,
                   result>>
    /\ UNCHANGED callVars
    /\ UNCHANGED parseVars
    /\ UNCHANGED callsVars
    /\ UNCHANGED durVars
    /\ UNCHANGED errVars

\* stderr_results.join().expect(..)?, builder.rs 300-302
JoinStderr ==
    /\ pc = "join_stderr"
    /\ errThread.st \in {"ok", "err"}
    /\ joined' = joined \cup {"stderr"}
    /\ IF errThread.st = "ok"
       THEN /\ exec' = [exec EXCEPT !.results = errThread.got]
            /\ pc' = "fold"
            /\ UNCHANGED result
       ELSE /\ result' = BuildError_io("Other")
            /\ pc' = "done"
            /\ UNCHANGED exec
    /\ UNCHANGED <<errScript, outScript, errSent, outSent, errPipe, outPipe,
                   child, status, errThread, outThread, paths, log_lines>>
    /\ UNCHANGED parseVars
    /\ UNCHANGED callsVars
    /\ UNCHANGED durVars
    /\ UNCHANGED errVars
    /\ UNCHANGED spawn_err
    /\ gc_root_dir' = IF pc' = "done" THEN RootAfterReturn(gc_root_dir, result')
                                      ELSE gc_root_dir
    /\ UNCHANGED <<opts, cmd, build_call, run_result>>

\* the loop over the classified lines, builder.rs 309-336
Fold ==
    /\ pc = "fold"
    /\ paths' = FoldResults(exec.results).paths
    /\ log_lines' = FoldResults(exec.results).log_lines
    /\ pc' = "conclude"
    /\ UNCHANGED <<errScript, outScript, errSent, outSent, errPipe, outPipe,
                   child, status, errThread, outThread, joined, exec, result>>
    /\ UNCHANGED parseVars
    /\ UNCHANGED callsVars
    /\ UNCHANGED durVars
    /\ UNCHANGED errVars
    /\ UNCHANGED callVars

\* the exit status check and the artifact count, builder.rs 338-357
Conclude ==
    /\ pc = "conclude"
    /\ result' = Conclusion(exec.exec_result, exec.build_products, paths, log_lines)
    /\ pc' = "done"
    /\ UNCHANGED <<errScript, outScript, errSent, outSent, errPipe, outPipe,
                   child, status, errThread, outThread, joined, exec, paths,
                   log_lines>>
    /\ UNCHANGED parseVars
    /\ UNCHANGED callsVars
    /\ UNCHANGED durVars
    /\ UNCHANGED errVars
    /\ UNCHANGED spawn_err
    /\ gc_root_dir' = IF pc' = "done" THEN RootAfterReturn(gc_root_dir, result')
                                      ELSE gc_root_dir
    /\ UNCHANGED <<opts, cmd, build_call, run_result>>

----------------------------------------------------------------------------
(* run, builder.rs 394-406, and build, builder.rs 367-372 *)

\* the realized store path of a derivation file
StorePath(drv) == <<"/nix/store/">> \o drv

\* what crate::nix::CallOpts::file(drv).path(logger) can come back with: the
\* realized path with the handle of its own root, or an error
PathOutcomes(drv) ==
    { [kind |-> "Ok", output |-> [gc_handle |-> "alive", path |-> StorePath(drv)]],
      BuildError_io("Other"),
      BuildError_output("no path") }

\* (mutant) the watch list is left out of what run returns
RunReturn_no_paths(inst, b) ==
    IF b.kind = "Ok"
    THEN [kind |-> "Ok", referenced_paths |-> <<>>, result |-> b.output]
    ELSE b

\* builder.rs 401-405: what run returns once build has come back with b
RunReturn(inst, b) ==
    IF b.kind = "Ok"
    THEN [kind |-> "Ok", referenced_paths |-> inst.referenced_paths,
          result |-> b.output]
    ELSE b

\* the ? at builder.rs 400: the error of the instantiation is what run returns
RunPropagate ==
    /\ pc = "done"
    /\ result.kind \in {"Io", "Spawn", "Exit"}
    /\ run_result' = result
    /\ pc' = "run_done"
    /\ UNCHANGED <<errScript, outScript, errSent, outSent, errPipe, outPipe,
                   child, status, errThread, outThread, joined, exec, paths,
                   log_lines, result>>
    /\ UNCHANGED <<opts, cmd, spawn_err, gc_root_dir, build_call>>
    /\ UNCHANGED parseVars
    /\ UNCHANGED callsVars
    /\ UNCHANGED durVars
    /\ UNCHANGED errVars

\* builder.rs 401: build is called with the path moved out of inst_info
BuildStart ==
    /\ pc = "done"
    /\ result.kind = "Ok"
    /\ build_call' = [st |-> "running", drv |-> result.path, out |-> NoResult]
    /\ pc' = "build"
    /\ UNCHANGED <<errScript, outScript, errSent, outSent, errPipe, outPipe,
                   child, status, errThread, outThread, joined, exec, paths,
                   log_lines, result>>
    /\ UNCHANGED <<opts, cmd, spawn_err, gc_root_dir, run_result>>
    /\ UNCHANGED parseVars
    /\ UNCHANGED callsVars
    /\ UNCHANGED durVars
    /\ UNCHANGED errVars

\* builder.rs 368-371 and 401-405: build comes back, run returns, and what
\* is left of inst_info, the handle of the temporary root, is dropped
BuildFinish ==
    /\ pc = "build"
    /\ \E b \in PathOutcomes(build_call.drv) :
          /\ build_call' = [build_call EXCEPT !.st = "returned", !.out = b]
          /\ run_result' = RunReturn(result, b)
    /\ gc_root_dir' = "released"
    /\ pc' = "run_done"
    /\ UNCHANGED <<errScript, outScript, errSent, outSent, errPipe, outPipe,
                   child, status, errThread, outThread, joined, exec, paths,
                   log_lines, result>>
    /\ UNCHANGED <<opts, cmd, spawn_err>>
    /\ UNCHANGED parseVars
    /\ UNCHANGED callsVars
    /\ UNCHANGED durVars
    /\ UNCHANGED errVars

----------------------------------------------------------------------------
(* BuildError: is_actionable, builder.rs 155-162, and Display, 88-111 *)

\* (mutant) every error is actionable
is_actionable_all(b) == TRUE

\* BuildError::is_actionable
is_actionable(b) ==
    CASE b.kind = "Io" -> FALSE
      [] b.kind = "Spawn" -> TRUE
      [] b.kind = "Exit" -> TRUE
      [] b.kind = "Output" -> TRUE

\* (mutant) the bytes of every line are written as they are
RECURSIVE LogLinesDisplay_raw(_)
LogLinesDisplay_raw(logs) ==
    IF logs = <<>> THEN <<>>
    ELSE Head(logs) \o <<"\n">> \o LogLinesDisplay_raw(Tail(logs))

\* LogLinesDisplay, builder.rs 181-192: each line is decoded with
\* String::from_utf8_lossy, a newline is pushed, and the text is written
RECURSIVE LogLinesDisplay(_)
LogLinesDisplay(logs) ==
    IF logs = <<>> THEN <<>>
    ELSE from_utf8_lossy(Head(logs)) \o <<"\n">> \o LogLinesDisplay(Tail(logs))

\* the text of a command line as BuildError keeps it: the words in
\* quotes, with a blank between them
RECURSIVE CmdText(_)
CmdText(c) ==
    IF c = <<>> THEN <<>>
    ELSE <<"\"">> \o Head(c) \o <<"\"">>
         \o (IF Tail(c) = <<>> THEN <<>> ELSE <<" ">> \o CmdText(Tail(c)))

\* (mutant) a missing exit code is shown as 0
StatusText_zero(status_code) ==
    IF status_code = {} THEN "0"
    ELSE ToString(CHOOSE c \in status_code : TRUE)

\* status.map_or("<unknown>".to_string(), |c| i32::to_string(&c))
StatusText(status_code) ==
    IF status_code = {} THEN "<unknown>"
    ELSE ToString(CHOOSE c \in status_code : TRUE)

\* impl fmt::Display for BuildError: the text written, in chunks
fmt_Display(b) ==
    CASE b.kind = "Io" -> <<"I/O error: ", b.msg>>
      [] b.kind = "Spawn" ->
            <<"failed to spawn Nix process. Is Nix installed and on the $PATH?\n",
              "$ ">> \o CmdText(b.cmd) \o <<"\n", b.msg>>
      [] b.kind = "Exit" ->
            <<"Nix process returned exit code ", StatusText(b.status), ".\n",
              "$ ">> \o CmdText(b.cmd) \o <<"\n">> \o LogLinesDisplay(b.logs)
      [] b.kind = "Output" -> <<b.msg>>

\* the errors the harness makes: one of each constructor, on each choice
\* of its arguments; an Exit is made from the stderr lines of a child the
\* way the orchestrator makes it
MaxLogLines == 2
ErrLogLines == { <<"a">>, <<BAD>>, <<"a", BAD>>, EvalLine(<<"a">>) }
ErrCommands ==
    { InstantiateCommand(o, TempDirPath, logged_evaluation_nix) :
        o \in {DefaultOpts, [DefaultOpts EXCEPT !.extra = <<OsStr_new("--show-trace")>>]} }

ErrInputs ==
    [how : {"io"}, e : IoErrors]
    \cup [how : {"spawn"}, c : ErrCommands, e : IoErrors]
    \cup [how : {"exit"}, c : ErrCommands, st : Statuses \ {Exited(0)},
          lines : BoundedSeq(ErrLogLines, MaxLogLines)]
    \cup [how : {"output"}, msg : {"no path"}]

\* the BuildError made from an input of the harness
MakeBuildError(i) ==
    CASE i.how = "io" -> BuildError_io(i.e)
      [] i.how = "spawn" -> BuildError_spawn(i.c, i.e)
      [] i.how = "exit" ->
            BuildError_exit(i.c, i.st,
                FoldResults([k \in 1..Len(i.lines) |->
                                parse_evaluation_line(i.lines[k])]).log_lines)
      [] i.how = "output" -> BuildError_output(i.msg)

InitErrVars ==
    /\ err_in \in ErrInputs
    /\ err = NoResult
    /\ actionable = {}
    /\ shown = <<>>

\* one of the constructors is called
MakeError ==
    /\ err = NoResult
    /\ err' = MakeBuildError(err_in)
    /\ UNCHANGED <<err_in, actionable, shown>>
    /\ UNCHANGED parseVars
    /\ UNCHANGED callsVars
    /\ UNCHANGED durVars
    /\ UNCHANGED procVars

\* err.is_actionable()
CallIsActionable ==
    /\ err # NoResult
    /\ actionable = {}
    /\ actionable' = {is_actionable(err)}
    /\ UNCHANGED <<err_in, err, shown>>
    /\ UNCHANGED parseVars
    /\ UNCHANGED callsVars
    /\ UNCHANGED durVars
    /\ UNCHANGED procVars

\* format!("{}", err)
CallDisplay ==
    /\ err # NoResult
    /\ shown = <<>>
    /\ shown' = fmt_Display(err)
    /\ UNCHANGED <<err_in, err, actionable>>
    /\ UNCHANGED parseVars
    /\ UNCHANGED callsVars
    /\ UNCHANGED durVars
    /\ UNCHANGED procVars

----------------------------------------------------------------------------
(* human_friendly_duration, cli.rs 100-126 *)

(* A string is a sequence of characters; a number of type u64 is the      *)
(* sequence of its base-16 digits, lowest first, without leading zeros,   *)
(* so that 64 bits are 16 digits and the arithmetic is exact.             *)

\* the number of bytes of a character in UTF-8
len_utf8(c) == IF c = "é" THEN 2 ELSE 1

DecimalDigits == <<"0", "1", "2", "3", "4", "5", "6", "7", "8", "9">>

IsDigit(c) == \E i \in 1..10 : DecimalDigits[i] = c

\* char::to_digit(10)
to_digit(c) == (CHOOSE i \in 1..10 : DecimalDigits[i] = c) - 1

\* the base-16 digits of a small number
RECURSIVE Limbs(_)
Limbs(n) == IF n = 0 THEN <<>> ELSE <<n % 16>> \o Limbs(n \div 16)

\* x * k + carry, exact
RECURSIVE MulAdd(_, _, _)
MulAdd(x, k, carry) ==
    IF x = <<>> THEN Limbs(carry)
    ELSE LET t == Head(x) * k + carry
         IN  <<t % 16>> \o MulAdd(Tail(x), k, t \div 16)

\* x without its leading zeros
RECURSIVE Normal(_)
Normal(x) ==
    IF x = <<>> \/ x[Len(x)] # 0 THEN x ELSE Normal(SubSeq(x, 1, Len(x) - 1))

\* the number of base-16 digits of a u64
U64Limbs == 16

\* x is more than u64::MAX
Overflows(x) == Len(Normal(x)) > U64Limbs

\* x modulo 2^64
Wrap(x) == Normal(SubSeq(x, 1, IF Len(x) < U64Limbs THEN Len(x) ELSE U64Limbs))

\* the digits of str::parse::<u64>, left to right: checked_mul(10), then
\* checked_add of the digit; the first character that is no digit, or the
\* first overflow, ends it with an error
RECURSIVE ParseDigits(_, _)
ParseDigits(acc, cs) ==
    IF cs = <<>> THEN [kind |-> "Ok", n |-> acc]
    ELSE IF ~IsDigit(Head(cs)) THEN [kind |-> "Err", e |-> "InvalidDigit"]
    ELSE LET next == Normal(MulAdd(acc, 10, to_digit(Head(cs))))
         IN  IF Overflows(next) THEN [kind |-> "Err", e |-> "PosOverflow"]
             ELSE ParseDigits(next, Tail(cs))

\* (mutant) a sign is no part of a number
parse_u64_no_sign(cs) ==
    IF cs = <<>> THEN [kind |-> "Err", e |-> "Empty"]
    ELSE ParseDigits(<<>>, cs)

\* str::parse::<u64>: an optional +, then digits
parse_u64(cs) ==
    IF cs = <<>> THEN [kind |-> "Err", e |-> "Empty"]
    ELSE IF Len(cs) = 1 /\ Head(cs) \in {"+", "-"}
         THEN [kind |-> "Err", e |-> "InvalidDigit"]
    ELSE IF Head(cs) = "+" THEN ParseDigits(<<>>, Tail(cs))
    ELSE ParseDigits(<<>>, cs)

\* s.ends_with(c)
ends_with(s, c) == s # <<>> /\ s[Len(s)] = c

\* s.get(0..(s.len() - 1)): None when the last byte is not where a
\* character starts; an Option, as a set with at most one element
get_but_last_byte(s) ==
    IF len_utf8(s[Len(s)]) = 1 THEN {SubSeq(s, 1, Len(s) - 1)} ELSE {}

\* n * multiplier on u64: a build that checks overflow panics, a build
\* that does not wraps around
u64_mul(n, k, checks) ==
    LET p == Normal(MulAdd(n, k, 0))
    IN  IF ~Overflows(p) THEN [kind |-> "Ok", v |-> p]
        ELSE IF checks THEN [kind |-> "Panic", why |-> "overflow"]
        ELSE [kind |-> "Ok", v |-> Wrap(p)]

\* the multiplier for the last character of s, if it has one
multiplier(s) ==
    IF ends_with(s, "d") THEN {24 * 60 * 60}
    ELSE IF ends_with(s, "m") THEN {30 * 24 * 60 * 60}
    ELSE IF ends_with(s, "y") THEN {365 * 24 * 60 * 60}
    ELSE {}

\* human_friendly_duration, in a build that checks overflow or not
human_friendly_duration(s, checks) ==
    IF multiplier(s) = {} THEN [kind |-> "Err", msg |-> "should end with d, m or y"]
    ELSE IF get_but_last_byte(s) = {}
         THEN [kind |-> "Err", msg |-> "has no integer part"]
    ELSE LET integer_part == CHOOSE x \in get_but_last_byte(s) : TRUE
             m == CHOOSE k \in multiplier(s) : TRUE
             n == parse_u64(integer_part)
         IN  IF n.kind = "Err" THEN [kind |-> "Err", msg |-> "is not an integer"]
             ELSE LET secs == u64_mul(n.n, m, checks)
                  IN  IF secs.kind = "Panic" THEN secs
                      ELSE [kind |-> "Ok", secs |-> secs.v]

\* u64::MAX and the number after it, in decimal
U64_MAX_TEXT == <<"1", "8", "4", "4", "6", "7", "4", "4", "0", "7", "3", "7", "0", "9", "5", "5", "1", "6", "1", "5">>

U64_OVER_TEXT == <<"1", "8", "4", "4", "6", "7", "4", "4", "0", "7", "3", "7", "0", "9", "5", "5", "1", "6", "1", "6">>

\* the largest n with n * 86400 <= u64::MAX, and the number after it
LAST_DAY_TEXT == <<"2", "1", "3", "5", "0", "3", "9", "8", "2", "3", "3", "4", "6", "0", "1">>

FIRST_OVER_DAY_TEXT == <<"2", "1", "3", "5", "0", "3", "9", "8", "2", "3", "3", "4", "6", "0", "2">>

\* the largest n with n * 2592000 <= u64::MAX, and the number after it
LAST_MONTH_TEXT == <<"7", "1", "1", "6", "7", "9", "9", "4", "1", "1", "1", "5", "3">>

FIRST_OVER_MONTH_TEXT == <<"7", "1", "1", "6", "7", "9", "9", "4", "1", "1", "1", "5", "4">>

\* the largest n with n * 31536000 <= u64::MAX, and the number after it
LAST_YEAR_TEXT == <<"5", "8", "4", "9", "4", "2", "4", "1", "7", "3", "5", "5">>

FIRST_OVER_YEAR_TEXT == <<"5", "8", "4", "9", "4", "2", "4", "1", "7", "3", "5", "6">>

\* the strings the harness tries: every short string over a few
\* characters, and the numbers around the limits, with each suffix
MaxDurLen == 3
DurChars == {"0", "1", "9", "+", "-", "d", "m", "y", "j", "é"}
LongNumbers ==
    { U64_MAX_TEXT, U64_OVER_TEXT, LAST_DAY_TEXT, FIRST_OVER_DAY_TEXT,
      LAST_MONTH_TEXT, FIRST_OVER_MONTH_TEXT, LAST_YEAR_TEXT,
      FIRST_OVER_YEAR_TEXT }
DurInputs ==
    BoundedSeq(DurChars, MaxDurLen)
    \cup { n \o <<c>> : n \in LongNumbers, c \in {"d", "m", "y", "j"} }

InitDurVars ==
    /\ dur_in \in DurInputs
    /\ dur_checks \in BOOLEAN
    /\ dur_out = NoResult

\* the function is called on the string
CallDuration ==
    /\ dur_out = NoResult
    /\ dur_out' = human_friendly_duration(dur_in, dur_checks)
    /\ UNCHANGED <<dur_in, dur_checks>>
    /\ UNCHANGED parseVars
    /\ UNCHANGED callsVars
    /\ UNCHANGED procVars
    /\ UNCHANGED errVars

----------------------------------------------------------------------------
(* Several calls of run at once, builder.rs 231-272 and 394-406: each call *)
(* has its own locals; what the calls have in common is the disk, on which *)
(* the temporary directories are, and the table of processes               *)

NumCalls == 2
Calls == 1..NumCalls

\* the names tempfile::TempDir::new() can give a directory, and the
\* process ids the system can give a child
TmpNames == 1..(NumCalls + 1)
Pids == 1..(NumCalls + 1)

NoCall == [pc |-> "start", dir |-> 0, pid |-> 0]

InitCallsVars ==
    /\ calls = [i \in Calls |-> NoCall]
    /\ tmpdirs = {}
    /\ procs = {}

\* (mutant) every call makes its directory under the same name
FreshTmpNames_fixed == {1}

\* tempfile::TempDir::new(), builder.rs 236: a directory that is not there yet
FreshTmpNames == TmpNames \ tmpdirs

\* the drop of a TempDir removes the directory of its own path
Release(d) == tmpdirs \ {d}

\* builder.rs 236: call i makes its temporary directory
CallAllocRoot(i) ==
    /\ calls[i].pc = "start"
    /\ \E d \in FreshTmpNames :
          /\ calls' = [calls EXCEPT ![i] = [@ EXCEPT !.pc = "spawn", !.dir = d]]
          /\ tmpdirs' = tmpdirs \cup {d}
    /\ UNCHANGED procs
    /\ UNCHANGED parseVars
    /\ UNCHANGED procVars
    /\ UNCHANGED errVars
    /\ UNCHANGED durVars

\* builder.rs 269-272: call i spawns its child, or fails to and returns,
\* dropping its directory
CallSpawn(i) ==
    /\ calls[i].pc = "spawn"
    /\ \/ /\ \E p \in Pids \ procs :
                /\ calls' = [calls EXCEPT ![i] = [@ EXCEPT !.pc = "wait", !.pid = p]]
                /\ procs' = procs \cup {p}
          /\ UNCHANGED tmpdirs
       \/ /\ calls' = [calls EXCEPT ![i] = [@ EXCEPT !.pc = "returned"]]
          /\ tmpdirs' = Release(calls[i].dir)
          /\ UNCHANGED procs
    /\ UNCHANGED parseVars
    /\ UNCHANGED procVars
    /\ UNCHANGED errVars
    /\ UNCHANGED durVars

\* builder.rs 295-357: the child of call i is waited for; the
\* instantiation returns an error, dropping the directory, or Ok, which
\* keeps it for the build step
CallInstantiated(i) ==
    /\ calls[i].pc = "wait"
    /\ procs' = procs \ {calls[i].pid}
    /\ \/ /\ calls' = [calls EXCEPT ![i] = [@ EXCEPT !.pc = "build"]]
          /\ UNCHANGED tmpdirs
       \/ /\ calls' = [calls EXCEPT ![i] = [@ EXCEPT !.pc = "returned"]]
          /\ tmpdirs' = Release(calls[i].dir)
    /\ UNCHANGED parseVars
    /\ UNCHANGED procVars
    /\ UNCHANGED errVars
    /\ UNCHANGED durVars

\* builder.rs 401-405: the build step of call i comes back and run
\* returns, dropping the directory
CallRunReturn(i) ==
    /\ calls[i].pc = "build"
    /\ calls' = [calls EXCEPT ![i] = [@ EXCEPT !.pc = "returned"]]
    /\ tmpdirs' = Release(calls[i].dir)
    /\ UNCHANGED procs
    /\ UNCHANGED parseVars
    /\ UNCHANGED procVars
    /\ UNCHANGED errVars
    /\ UNCHANGED durVars

----------------------------------------------------------------------------
(* Specifications *)

ChildStep == ChildWriteStderr \/ ChildWriteStdout \/ ChildBrokenPipe \/ ChildExit

StderrThreadStep == StderrRead \/ StderrEof

StdoutThreadStep == StdoutRead \/ StdoutEof

ParentStep ==
    \/ Prepare \/ Spawn \/ Wait \/ JoinStdout \/ JoinStderr \/ Fold \/ Conclude
    \/ RunPropagate \/ BuildStart \/ BuildFinish

Init == IdleParseVars /\ IdleErrVars /\ IdleDurVars /\ IdleCallsVars /\ InitProcVars

Next ==
    \/ ChildWriteStderr \/ ChildWriteStdout \/ ChildBrokenPipe \/ ChildExit
    \/ StderrRead \/ StderrEof
    \/ StdoutRead \/ StdoutEof
    \/ Prepare \/ Spawn \/ Wait \/ JoinStdout \/ JoinStderr \/ Fold \/ Conclude
    \/ RunPropagate \/ BuildStart \/ BuildFinish

\* the orchestrator, with its child and its two reader threads
Spec == Init /\ [][Next]_vars

\* the operating system schedules every runnable process and thread
Fairness ==
    /\ WF_vars(ChildStep)
    /\ WF_vars(StderrThreadStep)
    /\ WF_vars(StdoutThreadStep)
    /\ WF_vars(ParentStep)

\* blocking depends on how many lines are written and in which order, not
\* on what they say: the fair specification runs the same orchestrator on
\* fewer kinds of lines
FairStderrLines == { <<"a">>, EvalLine(<<"a">>) }

FairStdoutLines == { <<"drv1">> }

InitFair ==
    /\ IdleParseVars
    /\ IdleErrVars
    /\ IdleDurVars
    /\ IdleCallsVars
    /\ \E es \in BoundedSeq(FairStderrLines, MaxErrLines),
          os \in BoundedSeq(FairStdoutLines, MaxOutLines) : ProcVarsAt(es, os)

SpecFair == InitFair /\ [][Next]_vars /\ Fairness

\* run on every choice of entry file and extra options, with one child
CmdStderr == << <<"a">>, <<"a">> >>

CmdStdout == << <<"drv1">> >>

InitCmd ==
    /\ IdleParseVars
    /\ IdleErrVars
    /\ IdleDurVars
    /\ IdleCallsVars
    /\ \E o \in RunArgs : ProcVarsOf(CmdStderr, CmdStdout, o)

SpecCmd == InitCmd /\ [][Next]_vars

InitError == IdleParseVars /\ InitErrVars /\ IdleDurVars /\ IdleCallsVars /\ IdleProcVars

NextError == MakeError \/ CallIsActionable \/ CallDisplay

\* the values of BuildError, their is_actionable and their Display
SpecError == InitError /\ [][NextError]_vars

InitDuration == IdleParseVars /\ IdleErrVars /\ InitDurVars /\ IdleCallsVars /\ IdleProcVars

NextDuration == CallDuration

\* human_friendly_duration alone, on one string
SpecDuration == InitDuration /\ [][NextDuration]_vars

InitCalls ==
    IdleParseVars /\ IdleErrVars /\ IdleDurVars /\ InitCallsVars /\ IdleProcVars

NextCalls ==
    \/ \E i \in Calls : CallAllocRoot(i)
    \/ \E i \in Calls : CallSpawn(i)
    \/ \E i \in Calls : CallInstantiated(i)
    \/ \E i \in Calls : CallRunReturn(i)

\* several calls of run, side by side
SpecCalls == InitCalls /\ [][NextCalls]_vars

InitParse == InitParseVars /\ IdleErrVars /\ IdleDurVars /\ IdleCallsVars /\ IdleProcVars

NextParse == ParseLine

\* the classifier alone, on one generated line
SpecParse == InitParse /\ [][NextParse]_vars

----------------------------------------------------------------------------
(* Properties *)

Range(f) == {f[i] : i \in DOMAIN f}

\* the classifier harness has classified its line, which is text
ClassifiedText == datum # NoDatum /\ to_str_is_some(line)

\* the text ' -> ' occurs somewhere in l
HasSeparator(l) ==
    \E k \in 1..(Len(l) - 2) : l[k] = Q /\ l[k + 1] = AR /\ l[k + 2] = Q

\* the lines of es the classifier leaves unclassified, in order
PlainLines(es) ==
    SelectSeq(es, LAMBDA l : parse_evaluation_line(l).tag \in {"Text", "NonUtf"})

\* the number of lines among the first i of es classified as path events
PathEventsUpTo(es, i) ==
    Cardinality({j \in 1..i : parse_evaluation_line(es[j]).tag \in PathTags})

\* wait returned an error: the call is over and no thread was joined
WaitFailed == pc = "done" /\ child # "none" /\ joined = {}

\* the call returned and no wait and no read failed on the way
ReturnedWithoutIoError ==
    /\ pc = "done"
    /\ child = "exited"
    /\ ~WaitFailed
    /\ errThread.st # "err"
    /\ outThread.st # "err"

\* C1: every text line  trace: lorri readdir: '<p>'  is classified as
\* ReadDir(p) (so ReadDir is reachable, and never the variant a
\* recursive-read marker gets).
C1_ReadDirClassified ==
    (ClassifiedText /\ gen.shape = "readdir")
        => datum = LogDatum("ReadDir", gen.src)

\* C2: after the fold, every directory-listing marker line on stderr has a
\* Normal entry for its path in the watch list, no Recursive entry, and is
\* not in the diagnostic log buffer.
C2_ReadDirWatched ==
    pc = "conclude" =>
        \A i \in 1..Len(errScript) :
            LET l == errScript[i] IN
            (to_str_is_some(l) /\ LORRI_READDIR(l)) =>
                /\ WatchPathBuf("Normal", QuotedSource(l)) \in Range(paths)
                /\ WatchPathBuf("Recursive", QuotedSource(l)) \notin Range(paths)
                /\ l \notin Range(log_lines)

\* C3: after the fold, the watch entry made from a line  evaluating file '<p>'
\* is Normal(p/default.nix), and not p itself, when p is a directory on disk,
\* and Normal(p) when it is not.
C3_DefaultNix ==
    pc = "conclude" =>
        \A i \in 1..Len(errScript) :
            LET l == errScript[i]
                p == QuotedSource(l)
                n == PathEventsUpTo(errScript, i)
            IN  (to_str_is_some(l) /\ l = EvalLine(p)) =>
                    /\ n \in 1..Len(paths)
                    /\ paths[n].tag = "Normal"
                    /\ is_dir(p) => /\ paths[n].path = p \o <<"/", "default.nix">>
                                    /\ paths[n].path # p
                    /\ ~is_dir(p) => paths[n].path = p

C3_Witness ==
    /\ pc = "conclude"
    /\ \E i \in 1..Len(errScript) : errScript[i] = EvalLine(<<"d">>)
    /\ \E i \in 1..Len(errScript) : errScript[i] = EvalLine(<<"a">>)
    /\ WatchPathBuf("Normal", <<"d", "/", "default.nix">>) \in Range(paths)

\* C4, as claimed: every text line  copied source '<src>' -> '<dest>'  is
\* classified as CopiedSource(src) and folds to one Recursive entry for src.
C4_Original ==
    (ClassifiedText /\ gen.shape = "copied") =>
        /\ datum = LogDatum("CopiedSource", gen.src)
        /\ FoldResults(<<datum>>).paths = <<WatchPathBuf("Recursive", gen.src)>>

\* C4, amended: the same, for the lines in which the text ' -> ' does not
\* occur again from the quote that opens <dest> on.
C4_CopiedSource ==
    (ClassifiedText /\ gen.shape = "copied" /\ ~HasSeparator(<<Q>> \o gen.dest)) =>
        /\ datum = LogDatum("CopiedSource", gen.src)
        /\ FoldResults(<<datum>>).paths = <<WatchPathBuf("Recursive", gen.src)>>
        /\ FoldResults(<<datum>>).log_lines = <<>>

C4_Witness ==
    /\ ClassifiedText
    /\ gen.shape = "copied"
    /\ HasSeparator(gen.src)
    /\ gen.dest = <<"a">>
    /\ datum = LogDatum("CopiedSource", gen.src)

\* C5: a line that is not valid UTF-8 is classified as NonUtf with exactly
\* its bytes, whatever pattern its text looks like.
C5_NonUtf ==
    (datum # NoDatum /\ ~to_str_is_some(line)) => datum = LogDatum("NonUtf", line)

C5_Witness ==
    /\ gen.shape = "eval"
    /\ ~to_str_is_some(line)
    /\ EVAL_FILE(line)
    /\ datum = LogDatum("NonUtf", line)

\* C6: when the child exited without success and no wait and no read
\* failed, the call returns BuildError::Exit, whose logs are the
\* unclassified stderr lines (Text and NonUtf) in stderr order.
C6_ExitLogs ==
    (ReturnedWithoutIoError /\ ~success(status)) =>
        /\ result.kind = "Exit"
        /\ result.logs = PlainLines(errScript)

C6_Witness ==
    /\ ReturnedWithoutIoError
    /\ result.kind = "Exit"
    /\ errScript = <<CopiedLine(<<"a">>, <<"s">>), <<BAD>>>>
    /\ result.logs = <<<<BAD>>>>

\* C7: BuildError::exit aborts on a successful status; the orchestrator
\* never makes it abort, and every Exit value it returns was made from the
\* non-successful status of the child.
C7_ExitOnlyOnFailure ==
    /\ \A st \in Statuses :
           success(st) => BuildError_exit(cmd, st, <<>>).kind = "Panic"
    /\ result.kind = "Panic" => result.why # "assert"
    /\ result.kind = "Exit" =>
           /\ ~success(exec.exec_result)
           /\ result.status = code(exec.exec_result)

C7_Witness ==
    /\ pc = "done"
    /\ result.kind = "Exit"
    /\ result.status = {1}

\* C8: with the two readers running beside the child and the wait, the
\* call returns, whatever the child writes and however small the pipes.
C8_Returns == <>(pc = "done")

C8_Witness ==
    /\ pc = "done"
    /\ Len(outScript) > PipeCap
    /\ Len(errScript) > PipeCap
    /\ joined = {"stdout", "stderr"}
    /\ Len(exec.results) = Len(errScript)
    /\ Len(exec.build_products) = Len(outScript)

\* C9: whenever the call returns after the child was spawned, both reader
\* threads have been joined.
C9_BothJoined ==
    (pc = "done" /\ child # "none") => joined = {"stdout", "stderr"}

\* C10: when the child exited with success and no wait and no read failed,
\* the call returns Ok with the one line of stdout as its artifact if
\* stdout had exactly one line, and panics otherwise; no Ok is returned in
\* any other way.
C10_OneArtifact ==
    /\ (ReturnedWithoutIoError /\ success(status)) =>
           IF Len(outScript) = 1
           THEN result.kind = "Ok" /\ result.path = outScript[1]
           ELSE result.kind = "Panic" /\ result.why = "products"
    /\ result.kind = "Ok" =>
           /\ success(status)
           /\ outScript = <<result.path>>

C10_Witness ==
    /\ pc = "done"
    /\ result.kind = "Ok"
    /\ result.path = <<"drv2">>

\* C11: run instantiates, then builds. The build step is called only after
\* instrumented_instantiation has returned Ok; an error of the instantiation
\* is what run returns, and then build was never called; an error of build
\* is what run returns; run returns Ok only when the child exited with
\* success and build came back Ok, and then it carries the watch list of
\* the instantiation and the rooted path of build.
C11_InstantiateThenBuild ==
    /\ build_call.st # "none" =>
           /\ pc \in {"build", "run_done"}
           /\ result.kind = "Ok"
           /\ build_call.drv = result.path
    /\ (pc = "run_done" /\ result.kind # "Ok") =>
           /\ build_call = NoBuild
           /\ run_result = result
    /\ (pc = "run_done" /\ result.kind = "Ok" /\ build_call.out.kind # "Ok") =>
           run_result = build_call.out
    /\ run_result.kind = "Ok" =>
           /\ success(status)
           /\ result.kind = "Ok"
           /\ build_call.out.kind = "Ok"
           /\ run_result.referenced_paths = paths
           /\ run_result.referenced_paths = result.referenced_paths
           /\ run_result.result = build_call.out.output

C11_Witness ==
    /\ pc = "run_done"
    /\ run_result.kind = "Ok"
    /\ run_result.referenced_paths = <<WatchPathBuf("Normal", <<"a">>)>>
    /\ run_result.result.path = StorePath(<<"drv1">>)

\* C12: the temporary directory of the ephemeral GC root, once made, is
\* there through the whole instantiation, through the return of Ok, and
\* for as long as the build step runs; it is released only when run
\* returns. The Ok of run carries the realized path with the live handle
\* of its root.
C12_RootOutlivesBuild ==
    /\ pc \in {"spawn", "wait", "join_stdout", "join_stderr", "fold",
               "conclude", "build"} => gc_root_dir = "alive"
    /\ (pc = "done" /\ result.kind = "Ok") => gc_root_dir = "alive"
    /\ build_call.st = "running" => gc_root_dir = "alive"
    /\ gc_root_dir = "released" =>
           \/ pc = "run_done"
           \/ pc = "done" /\ result.kind # "Ok"
    /\ run_result.kind = "Ok" =>
           /\ run_result.result.gc_handle = "alive"
           /\ run_result.result.path = StorePath(build_call.drv)

C12_Witness ==
    /\ pc = "build"
    /\ build_call.st = "running"
    /\ build_call.drv = <<"drv1">>
    /\ gc_root_dir = "alive"

\* C13: when cmd.spawn() fails with NotFound, instrumented_instantiation
\* returns Spawn with the command line that was tried; when it fails in any
\* other way, it returns Io. Either way there is no child, no reader thread
\* was started, nothing was waited for and nothing joined.
C13_SpawnFailure ==
    spawn_err # "none" =>
        /\ pc \in {"done", "run_done"}
        /\ child = "none"
        /\ errThread.st = "none" /\ outThread.st = "none"
        /\ exec.exec_result = NoStatus
        /\ joined = {}
        /\ spawn_err = "NotFound" =>
               /\ result.kind = "Spawn"
               /\ Head(result.cmd) = <<"nix-instantiate">>
               /\ Tail(result.cmd) = cmd.args
               /\ cmd.args[Len(cmd.args) - 2] = opts.nix_file
        /\ spawn_err # "NotFound" => result.kind = "Io"

C13_Witness ==
    /\ pc = "done"
    /\ spawn_err = "NotFound"
    /\ result.kind = "Spawn"
    /\ opts.extra = <<OsStr_new("--show-trace")>>
    /\ result.cmd[3] = <<"--show-trace">>
    /\ errThread.st = "none"

\* C20: the arguments of the command are -vv, then the extra options, then
\* --add-root <tmpdir>/result --indirect, --argstr runTimeClosure <closure>,
\* --argstr src <entry file>, --, and the staged script, in this order;
\* stdin is null, stdout and stderr are pipes.
C20_CommandLine ==
    cmd.args # <<>> =>
        /\ cmd.program = "nix-instantiate"
        /\ cmd.args =
              << <<"-vv">> >> \o opts.extra \o
              << <<"--add-root">>, <<"/", "tmp", "/", "lorri", "/", "result">>,
                 <<"--indirect">>,
                 <<"--argstr">>, <<"runTimeClosure">>, RUN_TIME_CLOSURE,
                 <<"--argstr">>, <<"src">>, opts.nix_file,
                 <<"--">>, logged_evaluation_nix >>
        /\ \A i \in 1..Len(opts.extra) : cmd.args[i + 1] = opts.extra[i]
        /\ cmd.stdin = "null"
        /\ cmd.stdout = "piped"
        /\ cmd.stderr = "piped"

C20_Witness ==
    /\ pc = "wait"
    /\ opts.extra = <<OsStr_new("--option"), OsStr_new("--")>>
    /\ cmd.args[4] = <<"--add-root">>
    /\ child = "running"

\* C14: when no wait and no read failed, the kind of what
\* instrumented_instantiation returns, and the artifact of an Ok, are
\* fixed by the exit status of the child and the lines of its stdout alone:
\* Exit for a status that is not success, else Ok with the one stdout line,
\* else a panic. What stderr held, lines that are not UTF-8 included, has
\* no part in it.
C14_StderrBlind ==
    ReturnedWithoutIoError =>
        /\ result.kind = IF ~success(status) THEN "Exit"
                         ELSE IF Len(outScript) = 1 THEN "Ok" ELSE "Panic"
        /\ result.kind = "Ok" => result.path = outScript[1]

C14_Witness ==
    /\ ReturnedWithoutIoError
    /\ errScript = << <<BAD>>, <<BAD>> >>
    /\ success(status)
    /\ result.kind = "Ok"
    /\ result.path = <<"drv1">>
    /\ result.referenced_paths = <<>>

\* C15: after the fold the watch list has one entry for each stderr line
\* classified as a path, in stderr order and with repeats kept: Recursive(p)
\* for CopiedSource(p) and ReadRecursively(p), a Normal entry for
\* NixSourceFile(p), and, in the arm of the loop for it, Normal(p) for
\* ReadDir(p).
C15_WatchList ==
    /\ \A p \in {<<"a">>, <<"d">>} :
           FoldResults(<<LogDatum("ReadDir", p), LogDatum("ReadDir", p)>>).paths
               = <<WatchPathBuf("Normal", p), WatchPathBuf("Normal", p)>>
    /\ pc = "conclude" =>
           /\ Len(exec.results) = Len(errScript)
           /\ Len(paths) = PathEventsUpTo(errScript, Len(errScript))
           /\ \A i \in 1..Len(errScript) :
                  LET d == exec.results[i]
                      n == PathEventsUpTo(errScript, i)
                  IN  /\ d = parse_evaluation_line(errScript[i])
                      /\ d.tag \in PathTags =>
                             /\ paths[n].tag =
                                    IF d.tag \in {"CopiedSource", "ReadRecursively"}
                                    THEN "Recursive" ELSE "Normal"
                             /\ paths[n].path =
                                    IF d.tag = "NixSourceFile" /\ is_dir(d.val)
                                    THEN d.val \o <<"/", "default.nix">>
                                    ELSE d.val

C15_Witness ==
    /\ pc = "conclude"
    /\ errScript = <<ReadLine(<<"a">>), ReadLine(<<"a">>)>>
    /\ paths = <<WatchPathBuf("Recursive", <<"a">>),
                 WatchPathBuf("Recursive", <<"a">>)>>

\* the chunks l occur in text one after the other
Contains(text, l) ==
    \E k \in 0..(Len(text) - Len(l)) : SubSeq(text, k + 1, k + Len(l)) = l

\* the last n chunks of text
Last(text, n) == SubSeq(text, Len(text) - n + 1, Len(text))

\* the lines of the harness input that are not UTF-8
UndecodableLines == {l \in Range(err_in.lines) : ~to_str_is_some(l)}

\* the Exit error of the harness has been made and displayed
ExitShown == err_in.how = "exit" /\ err.kind = "Exit" /\ shown # <<>>

\* C16 as stated: the bytes of every stderr line that is not UTF-8 are in
\* the logs of the Exit error and, as they are, in the text Display writes.
C16_Original ==
    ExitShown =>
        \A l \in UndecodableLines :
            /\ l \in Range(err.logs)
            /\ Contains(shown, l \o <<"\n">>)

\* C16: the logs of the Exit error hold every stderr line that is not
\* UTF-8 byte for byte, in stderr order; the text Display writes ends with
\* one row per log line, the line decoded lossily (each undecodable byte
\* replaced by U+FFFD, the rest unchanged) and a newline, so no undecodable
\* byte is in the text.
C16_LossyDisplay ==
    ExitShown =>
        /\ err.logs = PlainLines(err_in.lines)
        /\ \A l \in UndecodableLines : l \in Range(err.logs)
        /\ BAD \notin Range(shown)
        /\ \A i \in 1..Len(err.logs) :
               LET l == err.logs[i]
                   rest == LogLinesDisplay(SubSeq(err.logs, i, Len(err.logs)))
                   row == SubSeq(Last(shown, Len(rest)), 1, Len(l) + 1)
               IN  /\ Len(rest) <= Len(shown)
                   /\ row[Len(l) + 1] = "\n"
                   /\ \A k \in 1..Len(l) :
                          row[k] = IF l[k] = BAD THEN "U+FFFD" ELSE l[k]

C16_Witness ==
    /\ ExitShown
    /\ err_in.lines = << <<"a", BAD>>, EvalLine(<<"a">>) >>
    /\ err.logs = << <<"a", BAD>> >>
    /\ Last(shown, 3) = <<"a", "U+FFFD", "\n">>

\* C17: is_actionable gives false for Io and true for Spawn, Exit and
\* Output, whatever their fields hold.
C17_Actionable ==
    actionable # {} =>
        /\ err.kind = "Io" => actionable = {FALSE}
        /\ err.kind \in {"Spawn", "Exit", "Output"} => actionable = {TRUE}
        /\ err.kind \in {"Io", "Spawn", "Exit", "Output"}

C17_Witness ==
    /\ err.kind = "Io"
    /\ err.msg = "PermissionDenied"
    /\ actionable = {FALSE}

\* C19: when the instantiation came back Ok and the build step failed, what
\* run returns still carries the watch list the instantiation collected.
C19_PathsSurviveBuildFailure ==
    (pc = "run_done" /\ result.kind = "Ok" /\ build_call.out.kind # "Ok") =>
        /\ "referenced_paths" \in DOMAIN run_result
        /\ run_result.referenced_paths = result.referenced_paths

\* C24: after the fold, every stderr line read has one LogDatum, and the
\* watch entries and the log lines together are as many as the lines; the
\* lines classified Text or NonUtf are in the log buffer, whole and in
\* stderr order, and the watch list has entries for the other lines only.
C24_OneOutputPerLine ==
    pc = "conclude" =>
        /\ Len(exec.results) = Len(errScript)
        /\ Len(paths) + Len(log_lines) = Len(errScript)
        /\ \A i \in 1..Len(errScript) :
               LET d == exec.results[i]
                   n == i - PathEventsUpTo(errScript, i)
               IN  d.tag \in {"Text", "NonUtf"} =>
                       /\ d.val = errScript[i]
                       /\ n \in 1..Len(log_lines)
                       /\ log_lines[n] = errScript[i]
        /\ Len(paths) = Cardinality({i \in 1..Len(errScript) :
                             exec.results[i].tag \notin {"Text", "NonUtf"}})

C24_Witness ==
    /\ pc = "conclude"
    /\ errScript = << <<"a">>, <<BAD>> >>
    /\ log_lines = << <<"a">>, <<BAD>> >>
    /\ paths = <<>>

\* C25: the exit status is looked at before the artifacts are counted: when
\* the child did not exit with success (and no wait and no read failed),
\* the call returns Exit whether stdout held no line, one line or several,
\* and does not panic.
C25_StatusBeforeCount ==
    \A n \in 0..MaxOutLines :
        (ReturnedWithoutIoError /\ ~success(exec.exec_result)
            /\ Len(exec.build_products) = n) =>
                /\ result.kind = "Exit"
                /\ result.kind # "Panic"
                /\ Len(outScript) = n

C25_Witness ==
    /\ ReturnedWithoutIoError
    /\ exec.exec_result = Exited(1)
    /\ exec.build_products = << <<"drv1">>, <<"drv2">> >>
    /\ result.kind = "Exit"

\* instrumented_instantiation has returned after the child exited
ReturnedAfterExit == pc \in {"done", "build", "run_done"} /\ child = "exited"

\* C26: a failed wait, else a read error of the stdout reader, else a read
\* error of the stderr reader makes the call return Io, whatever the exit
\* status of the child: a failed wait returns before any join, a stdout
\* read error after the first join, a stderr read error after both; and an
\* Exit or an Ok is returned only when none of the three happened.
C26_IoFirst ==
    ReturnedAfterExit =>
        /\ joined = {} => result.kind = "Io"
        /\ (joined # {} /\ outThread.st = "err") =>
               /\ result.kind = "Io"
               /\ joined = {"stdout"}
        /\ (joined # {} /\ outThread.st # "err" /\ errThread.st = "err") =>
               /\ result.kind = "Io"
               /\ joined = {"stdout", "stderr"}
        /\ result.kind \in {"Ok", "Exit", "Panic"} =>
               /\ joined = {"stdout", "stderr"}
               /\ outThread.st = "ok"
               /\ errThread.st = "ok"

C26_Witness ==
    /\ pc = "done"
    /\ child = "exited"
    /\ status = Exited(0)
    /\ outThread = Thread("ok", << <<"drv1">> >>)
    /\ errThread.st = "err"
    /\ joined = {"stdout", "stderr"}
    /\ result.kind = "Io"

\* the classification of every line of es, in order
Classified(es) == [i \in 1..Len(es) |-> parse_evaluation_line(es[i])]

\* C27: what the call collects and returns is fixed by the lines the child
\* writes to stdout and to stderr and by its exit status, whatever the
\* order in which the child, the two readers and the parent took their
\* steps: once both readers are joined without a read error, the artifacts
\* are the stdout lines in order and the data the classified stderr lines
\* in order; the watch list, the log lines and the result follow from them.
C27_ScheduleFree ==
    /\ pc \in {"fold", "conclude"} =>
           /\ exec.exec_result = status
           /\ exec.build_products = outScript
           /\ exec.results = Classified(errScript)
    /\ pc = "conclude" =>
           /\ paths = FoldResults(Classified(errScript)).paths
           /\ log_lines = FoldResults(Classified(errScript)).log_lines
    /\ ReturnedWithoutIoError =>
           result = Conclusion(status, outScript,
                               FoldResults(Classified(errScript)).paths,
                               FoldResults(Classified(errScript)).log_lines)

C27_Witness ==
    /\ ReturnedWithoutIoError
    /\ errScript = << <<"a">>, EvalLine(<<"d">>) >>
    /\ outScript = << <<"drv2">>, <<"drv1">> >>
    /\ Len(errScript) > PipeCap
    /\ status = Exited(1)
    /\ result.kind = "Exit"
    /\ result.logs = << <<"a">> >>

\* the patterns, of the four, that match l
Hits(l) ==
    {n \in {"eval", "copied", "read", "readdir"} :
        CASE n = "eval" -> EVAL_FILE(l)
          [] n = "copied" -> COPIED_SOURCE(l)
          [] n = "read" -> LORRI_READ(l)
          [] n = "readdir" -> LORRI_READDIR(l)}

\* C28: no text line matches two of the four patterns, so that the variant
\* a line gets is the one of the only pattern it matches, in whatever
\* order the patterns are tried; and a line matching none of them is Text
\* with the whole line.
C28_Disjoint ==
    ClassifiedText =>
        /\ Cardinality(Hits(line)) <= 1
        /\ Hits(line) = {} => datum = LogDatum("Text", line)
        /\ Hits(line) = {"eval"} => datum.tag = "NixSourceFile"
        /\ Hits(line) = {"copied"} => datum.tag = "CopiedSource"
        /\ Hits(line) = {"read"} => datum.tag = "ReadRecursively"

C28_Witness ==
    /\ ClassifiedText
    /\ gen.shape = "raw"
    /\ line = <<CP, EV, Q>>
    /\ Hits(line) = {}
    /\ datum = LogDatum("Text", line)

\* C29: when the child was ended by a signal, so that its status has no
\* exit code, and no wait and no read failed, the call returns Exit with
\* no status, whatever stdout held; it is not taken for a success; and the
\* text Display writes for that error begins
\* "Nix process returned exit code <unknown>.".
C29_SignalIsExit ==
    (ReturnedWithoutIoError /\ status = Signaled) =>
        /\ ~success(exec.exec_result)
        /\ result.kind = "Exit"
        /\ result.status = {}
        /\ SubSeq(fmt_Display(result), 1, 3) =
               <<"Nix process returned exit code ", "<unknown>", ".\n">>

C29_Witness ==
    /\ ReturnedWithoutIoError
    /\ status = Signaled
    /\ outScript = << <<"drv1">> >>
    /\ result.kind = "Exit"
    /\ result.status = {}
    /\ fmt_Display(result)[2] = "<unknown>"

\* C30: the temporary directory of the instantiation is gone once it can
\* no longer be of use: when instrumented_instantiation returns an error
\* after the directory was made (the spawn failed, a wait or a read failed,
\* the child did not exit with success), the directory has been released;
\* and when run has returned, with Ok or with an error, it has been
\* released too, the handle in an Ok of run being that of the build step.
C30_RootReleased ==
    /\ (pc \in {"done", "run_done"} /\ result.kind \in {"Io", "Spawn", "Exit"}) =>
           gc_root_dir = IF cmd.args # <<>> THEN "released" ELSE "none"
    /\ pc = "run_done" => gc_root_dir \in {"released", "none"}
    /\ (pc = "run_done" /\ result.kind = "Ok") =>
           /\ gc_root_dir = "released"
           /\ run_result.kind = "Ok" => run_result.result.gc_handle = "alive"

C30_Witness ==
    /\ pc = "run_done"
    /\ result.kind = "Ok"
    /\ build_call.st = "returned"
    /\ run_result = BuildError_output("no path")
    /\ gc_root_dir = "released"

\* the string but its last character, and its last character
IntegerPart(s) == SubSeq(s, 1, Len(s) - 1)

Suffix(s) == s[Len(s)]

\* one or more decimal digits
AllDigits(cs) == cs # <<>> /\ \A i \in 1..Len(cs) : IsDigit(cs[i])

\* the harness has called the function on a string ending in d, m or y
CalledWithSuffix ==
    dur_out # NoResult /\ dur_in # <<>> /\ Suffix(dur_in) \in {"d", "m", "y"}

\* C21: for a string made of a decimal integer n that fits in u64 and one
\* of the suffixes, the function returns Ok with n * 86400 seconds for d,
\* n * 30 * 86400 for m and n * 365 * 86400 for y, the product being the
\* exact one.
C21_ExactProduct ==
    (CalledWithSuffix /\ AllDigits(IntegerPart(dur_in))
        /\ ParseDigits(<<>>, IntegerPart(dur_in)).kind = "Ok") =>
            LET n == ParseDigits(<<>>, IntegerPart(dur_in)).n
                m == CASE Suffix(dur_in) = "d" -> 86400
                       [] Suffix(dur_in) = "m" -> 2592000
                       [] Suffix(dur_in) = "y" -> 31536000
            IN  dur_out = [kind |-> "Ok", secs |-> Normal(MulAdd(n, m, 0))]

\* C22 as stated: Err for every string that does not end in d, m or y and
\* for every string whose part before the last byte is not made of one or
\* more decimal digits.
C22_Original ==
    dur_out # NoResult =>
        /\ (dur_in = <<>> \/ Suffix(dur_in) \notin {"d", "m", "y"}) =>
               dur_out.kind = "Err"
        /\ (CalledWithSuffix /\ ~AllDigits(IntegerPart(dur_in))) =>
               dur_out.kind = "Err"

\* an optional +, then one or more decimal digits
SignedDigits(cs) ==
    AllDigits(cs) \/ (cs # <<>> /\ Head(cs) = "+" /\ AllDigits(Tail(cs)))

\* C22: the function returns Err, and does not panic, in a build of either
\* kind, for every string that does not end in d, m or y (the empty string
\* and a string ending in a character of several bytes among them), for
\* every string whose part before the suffix is not an optional + followed
\* by one or more decimal digits, and for a part that is a number above
\* u64::MAX; a part +n is taken as n, and the error of a part that cannot
\* be cut out is never returned.
C22_Rejects ==
    dur_out # NoResult =>
        /\ (dur_in = <<>> \/ Suffix(dur_in) \notin {"d", "m", "y"}) =>
               dur_out = [kind |-> "Err", msg |-> "should end with d, m or y"]
        /\ (dur_in # <<>> /\ len_utf8(Suffix(dur_in)) > 1) =>
               dur_out.kind = "Err"
        /\ (CalledWithSuffix /\ ~SignedDigits(IntegerPart(dur_in))) =>
               dur_out = [kind |-> "Err", msg |-> "is not an integer"]
        /\ (CalledWithSuffix /\ IntegerPart(dur_in) = U64_OVER_TEXT) =>
               dur_out = [kind |-> "Err", msg |-> "is not an integer"]
        /\ (CalledWithSuffix /\ IntegerPart(dur_in) = <<"+", "1">>) =>
               dur_out = [kind |-> "Ok",
                          secs |-> Limbs(CASE Suffix(dur_in) = "d" -> 86400
                                           [] Suffix(dur_in) = "m" -> 2592000
                                           [] Suffix(dur_in) = "y" -> 31536000)]
        /\ dur_out.kind = "Err" => dur_out.msg # "has no integer part"

C22_Witness ==
    /\ dur_in = <<"1", "d", "d">>
    /\ dur_checks
    /\ dur_out = [kind |-> "Err", msg |-> "is not an integer"]

\* call i holds the handle of its temporary directory
HoldsRoot(i) == calls[i].pc \in {"spawn", "wait", "build"}

\* the child of call i is alive
HasChild(i) == calls[i].pc = "wait"

\* C23: calls running side by side each have a temporary directory and a
\* child of their own: while a call holds its handle its directory is on
\* disk, whatever the other calls made or released meanwhile; no two calls
\* holding a handle have the same directory, no two calls with a child
\* have the same child; and a step of one call leaves the locals of every
\* other call as they were.
C23_Independent ==
    /\ [](\A i \in Calls : HoldsRoot(i) => calls[i].dir \in tmpdirs)
    /\ [](\A i \in Calls : HasChild(i) => calls[i].pid \in procs)
    /\ [](\A i, j \in Calls :
            (i # j /\ HoldsRoot(i) /\ HoldsRoot(j)) => calls[i].dir # calls[j].dir)
    /\ [](\A i, j \in Calls :
            (i # j /\ HasChild(i) /\ HasChild(j)) => calls[i].pid # calls[j].pid)
    /\ [][\A i, j \in Calls :
            (i # j /\ calls'[i] # calls[i]) => calls'[j] = calls[j]]_vars

C23_Witness ==
    /\ calls[1].pc = "returned"
    /\ calls[2].pc = "build"
    /\ calls[1].dir # calls[2].dir
    /\ calls[2].dir \in tmpdirs
    /\ calls[1].dir \notin tmpdirs

====
